---------------------------- MODULE Spec2Model ----------------------------
(***************************************************************************)
(* Smart Sales Analyzer (src/main.py): one upload is read into a table,    *)
(* the Sales / Category / Payment / Date columns are guessed by fuzzy      *)
(* header matching, the table is cleaned, and the insights, the charts'    *)
(* data and the PDF are computed from the cleaned table.                   *)
(*                                                                         *)
(* A text (a header, a cell of the uploaded file) is the sequence of its   *)
(* code points, so that lower(), the similarity ratio, the numeric and the *)
(* date parse and the sort order of texts are computed, not assumed.       *)
(* The empty text stands for a missing value: read_csv reads an empty cell *)
(* as NaN and never yields an empty header, and None is the empty text.    *)
(* Sales values are kept in hundredths, as integers.                       *)
(***************************************************************************)
EXTENDS Integers, Sequences, FiniteSets

VARIABLES
    pc,            \* position of the script: "idle", "loaded", "clean", ...
    columns,       \* df.columns, in file order
    df,            \* the rows of the uploaded table, each aligned with columns
    sales_col, category_col, payment_col, date_col,
    original_count, df_clean, clean_columns, cleaned_count, dropped,
    total_sales, avg_sales_per_category, top_category, fig1,
    payment_counts, weekday_counts, pdf,
    st_out,        \* what the page shows, in order of emission
    target, match  \* the matcher on its own: the word looked up, the answer

vars == <<pc, columns, df, sales_col, category_col, payment_col, date_col,
          original_count, df_clean, clean_columns, cleaned_count, dropped,
          total_sales, avg_sales_per_category, top_category, fig1,
          payment_counts, weekday_counts, pdf, st_out, target, match>>

----------------------------------------------------------------------------
(* Bounds of the explored inputs.                                          *)
MaxRows == 2       \* rows of an uploaded table
MaxHeaders == 2    \* headers of a header list handed to the matcher alone

----------------------------------------------------------------------------
(* Texts.                                                                  *)
None == <<>>
NaN == <<>>

T_sales == <<115, 97, 108, 101, 115>>                       \* "sales"
T_category == <<99, 97, 116, 101, 103, 111, 114, 121>>      \* "category"
T_payment == <<112, 97, 121, 109, 101, 110, 116>>           \* "payment"
T_date == <<100, 97, 116, 101>>                             \* "date"

H_Sales == <<83, 97, 108, 101, 115>>                        \* "Sales"
H_Category == <<67, 97, 116, 101, 103, 111, 114, 121>>      \* "Category"
H_Payment == <<80, 97, 121, 109, 101, 110, 116>>            \* "Payment"
H_Date == <<68, 97, 116, 101>>                              \* "Date"
H_sale == <<115, 97, 108, 101>>                             \* "sale"
H_categories == <<99, 97, 116, 101, 103, 111, 114, 105, 101, 115>>  \* "categories"
H_payments == <<112, 97, 121, 109, 101, 110, 116, 115>>     \* "payments"
H_dates == <<100, 97, 116, 101, 115>>                       \* "dates"
H_Amt == <<65, 109, 116>>                                   \* "Amt"
H_Product == <<80, 114, 111, 100, 117, 99, 116>>            \* "Product"
H_PayMode == <<80, 97, 121, 32, 77, 111, 100, 101>>         \* "Pay Mode"
H_Amount == <<65, 109, 111, 117, 110, 116>>                 \* "Amount"
H_SALES == <<83, 65, 76, 69, 83>>                           \* "SALES"
H_SalesPadded == <<32, 83, 97, 108, 101, 115, 32>>          \* " Sales "
H_Sales1 == <<83, 97, 108, 101, 115, 49>>                   \* "Sales1"
H_Sales2 == <<83, 97, 108, 101, 115, 50>>                   \* "Sales2"
H_Salon == <<83, 97, 108, 111, 110>>                        \* "Salon"
H_TotalSales == <<84, 111, 116, 97, 108, 32, 83, 97, 108, 101, 115>>  \* "Total Sales"
H_Region == <<82, 101, 103, 105, 111, 110>>                 \* "Region"

V_12 == <<49, 50>>                                          \* "12"
V_7_5 == <<55, 46, 53>>                                     \* "7.5"
V_abc == <<97, 98, 99>>                                     \* "abc"
V_100_50 == <<49, 48, 48, 46, 53, 48>>                      \* "100.50"
V_A == <<65>>                                               \* "A"
V_B == <<66>>                                               \* "B"
V_Widgets == <<87, 105, 100, 103, 101, 116, 115>>           \* "Widgets"
V_Cash == <<67, 97, 115, 104>>                              \* "Cash"
V_Card == <<67, 97, 114, 100>>                              \* "Card"
V_Mon == <<50, 48, 50, 52, 45, 48, 49, 45, 48, 56>>         \* "2024-01-08"
V_Sun == <<50, 48, 50, 52, 45, 48, 49, 45, 49, 52>>         \* "2024-01-14"
V_BadDay == <<50, 48, 50, 52, 45, 48, 50, 45, 51, 48>>      \* "2024-02-30"
V_soon == <<115, 111, 111, 110>>                            \* "soon"

(* str.lower() on the ASCII range: "A".."Z" move to "a".."z".              *)
lower(s) ==
    [i \in 1..Len(s) |-> IF s[i] >= 65 /\ s[i] <= 90 THEN s[i] + 32 ELSE s[i]]

(* Python's order on str: by code point, a proper prefix first.            *)
RECURSIVE StrLess(_, _)
StrLess(s, t) ==
    IF t = <<>> THEN FALSE
    ELSE IF s = <<>> THEN TRUE
    ELSE IF s[1] # t[1] THEN s[1] < t[1]
    ELSE StrLess(Tail(s), Tail(t))

RECURSIVE SumSeq(_)
SumSeq(s) == IF s = <<>> THEN 0 ELSE s[1] + SumSeq(Tail(s))

Min(a, b) == IF a <= b THEN a ELSE b

----------------------------------------------------------------------------
(* difflib, as get_close_matches(word, possibilities, n=1, cutoff=0.6)     *)
(* uses it. No element is junk: isjunk is None and autojunk only acts on   *)
(* sequences of 200 elements or more.                                      *)

(* Length of the common run of a from i and b from j, inside a[..ahi] and  *)
(* b[..bhi].                                                               *)
RECURSIVE RunLen(_, _, _, _, _, _)
RunLen(a, b, i, j, ahi, bhi) ==
    IF i > ahi \/ j > bhi \/ a[i] # b[j] THEN 0
    ELSE 1 + RunLen(a, b, i + 1, j + 1, ahi, bhi)

(* SequenceMatcher.find_longest_match on a[alo..ahi], b[blo..bhi]          *)
(* (inclusive, 1-based): the longest block, of those the one that starts   *)
(* earliest in a, of those the one that starts earliest in b.              *)
find_longest_match(a, b, alo, ahi, blo, bhi) ==
    LET Starts == (alo..ahi) \X (blo..bhi)
        K(p) == RunLen(a, b, p[1], p[2], ahi, bhi)
        Best(p) == \A q \in Starts :
                      \/ K(q) < K(p)
                      \/ /\ K(q) = K(p)
                         /\ \/ p[1] < q[1]
                            \/ p[1] = q[1] /\ p[2] <= q[2]
    IN  IF Starts = {} THEN <<alo, blo, 0>>
        ELSE LET p == CHOOSE p \in Starts : Best(p)
             IN  IF K(p) = 0 THEN <<alo, blo, 0>> ELSE <<p[1], p[2], K(p)>>

(* SequenceMatcher.get_matching_blocks, summed: the block found, then the  *)
(* pieces to its left and to its right.                                    *)
RECURSIVE matches_total(_, _, _, _, _, _)
matches_total(a, b, alo, ahi, blo, bhi) ==
    IF alo > ahi \/ blo > bhi THEN 0
    ELSE LET m == find_longest_match(a, b, alo, ahi, blo, bhi)
         IN  IF m[3] = 0 THEN 0
             ELSE m[3]
                  + matches_total(a, b, alo, m[1] - 1, blo, m[2] - 1)
                  + matches_total(a, b, m[1] + m[3], ahi, m[2] + m[3], bhi)

(* A ratio 2.0 * matches / length is kept as the pair <<2*matches, length>>; *)
(* _calculate_ratio answers 1.0 for length 0.                              *)
calculate_ratio(m, length) == IF length = 0 THEN <<1, 1>> ELSE <<2 * m, length>>

ratio(a, b) ==
    calculate_ratio(matches_total(a, b, 1, Len(a), 1, Len(b)), Len(a) + Len(b))

(* SequenceMatcher.quick_ratio: the multiset intersection of the elements. *)
quick_ratio(a, b) ==
    LET Cnt(s, c) == Cardinality({i \in 1..Len(s) : s[i] = c})
        Elems == {a[i] : i \in 1..Len(a)}
        Common == [c \in Elems |-> Min(Cnt(a, c), Cnt(b, c))]
        RECURSIVE Total(_)
        Total(S) == IF S = {} THEN 0
                    ELSE LET c == CHOOSE c \in S : TRUE
                         IN  Common[c] + Total(S \ {c})
    IN  calculate_ratio(Total(Elems), Len(a) + Len(b))

real_quick_ratio(a, b) == calculate_ratio(Min(Len(a), Len(b)), Len(a) + Len(b))

(* r >= cutoff, cutoff = 0.6 = 6/10.                                       *)
MeetsCutoff(r) == r[1] * 10 >= 6 * r[2]

RatioLess(r, q) == r[1] * q[2] < q[1] * r[2]

(* The (score, x) pairs get_close_matches collects, in possibility order.  *)
close_results(word, possibilities) ==
    SelectSeq([i \in 1..Len(possibilities) |->
                  <<ratio(possibilities[i], word), possibilities[i]>>],
              LAMBDA e : /\ MeetsCutoff(real_quick_ratio(e[2], word))
                         /\ MeetsCutoff(quick_ratio(e[2], word))
                         /\ MeetsCutoff(e[1]))

(* Python's order on the (score, x) tuples.                                *)
PairLess(e, f) ==
    \/ RatioLess(e[1], f[1])
    \/ ~RatioLess(f[1], e[1]) /\ StrLess(e[2], f[2])

(* Variant of nlargest1: the first of the best scores, the texts not       *)
(* compared.                                                               *)
nlargest1_by_score(result) ==
    IF result = <<>> THEN <<>>
    ELSE LET i == CHOOSE i \in 1..Len(result) :
                     /\ \A j \in 1..Len(result) : ~RatioLess(result[i][1], result[j][1])
                     /\ \A j \in 1..(i - 1) : RatioLess(result[j][1], result[i][1])
         IN  <<result[i]>>

(* heapq.nlargest(1, result): max(result), the first of the greatest.      *)
nlargest1(result) ==
    IF result = <<>> THEN <<>>
    ELSE LET i == CHOOSE i \in 1..Len(result) :
                     /\ \A j \in 1..Len(result) : ~PairLess(result[i], result[j])
                     /\ \A j \in 1..(i - 1) : PairLess(result[j], result[i])
         IN  <<result[i]>>

get_close_matches(word, possibilities) ==
    LET best == nlargest1(close_results(word, possibilities))
    IN  [i \in 1..Len(best) |-> best[i][2]]

(* guess_column_name(columns, target)                                      *)
guess_column_name(cols, tgt) ==
    LET matches == get_close_matches(lower(tgt), [i \in 1..Len(cols) |-> lower(cols[i])])
    IN  IF matches # <<>>
        THEN LET Hits == {i \in 1..Len(cols) : lower(cols[i]) = matches[1]}
             IN  IF Hits = {} THEN None
                 ELSE cols[CHOOSE i \in Hits : \A j \in Hits : i <= j]
        ELSE None

----------------------------------------------------------------------------
(* pandas, as the script uses it. A float or datetime cell is NaN (the     *)
(* empty tuple) or the one-tuple / the <<y, m, d>> tuple of its value.     *)
NaT == <<>>

isna(v) == v = <<>>

IsDigit(c) == c >= 48 /\ c <= 57

AllDigits(s) == \A i \in 1..Len(s) : IsDigit(s[i])

RECURSIVE DigitsValue(_)
DigitsValue(s) ==
    IF s = <<>> THEN 0 ELSE 10 * DigitsValue(SubSeq(s, 1, Len(s) - 1)) + (s[Len(s)] - 48)

(* pd.to_numeric(errors="coerce") on one cell: an optional sign, digits    *)
(* with an optional decimal point; anything else is NaN. The value is in   *)
(* hundredths, so a text with more than two decimals is outside the model. *)
to_numeric(cell) ==
    LET signed == cell # <<>> /\ cell[1] \in {43, 45}
        body == IF signed THEN Tail(cell) ELSE cell
        Dots == {i \in 1..Len(body) : body[i] = 46}
        dot == IF Dots = {} THEN Len(body) + 1 ELSE CHOOSE i \in Dots : \A j \in Dots : i <= j
        ip == SubSeq(body, 1, dot - 1)
        fp == SubSeq(body, dot + 1, Len(body))
        frac == IF Len(fp) = 0 THEN 0
                ELSE IF Len(fp) = 1 THEN 10 * DigitsValue(fp)
                ELSE DigitsValue(fp)
        mag == 100 * DigitsValue(ip) + frac
    IN  IF /\ AllDigits(ip) /\ AllDigits(fp)
           /\ Len(ip) + Len(fp) >= 1
           /\ Len(fp) <= 2
        THEN <<IF signed /\ cell[1] = 45 THEN 0 - mag ELSE mag>>
        ELSE NaN

IsLeap(y) == (y % 4 = 0 /\ y % 100 # 0) \/ y % 400 = 0

DaysInMonth(y, m) ==
    IF m = 2 THEN (IF IsLeap(y) THEN 29 ELSE 28)
    ELSE IF m \in {4, 6, 9, 11} THEN 30 ELSE 31

(* pd.to_datetime(errors="coerce") on one cell, for the ISO texts          *)
(* YYYY-MM-DD and for texts that are no date at all: a date that does not  *)
(* exist, or a text that is not a date, is NaT.                            *)
to_datetime(cell) ==
    IF /\ Len(cell) = 10
       /\ cell[5] = 45 /\ cell[8] = 45
       /\ AllDigits(SubSeq(cell, 1, 4))
       /\ AllDigits(SubSeq(cell, 6, 7))
       /\ AllDigits(SubSeq(cell, 9, 10))
    THEN LET y == DigitsValue(SubSeq(cell, 1, 4))
             m == DigitsValue(SubSeq(cell, 6, 7))
             d == DigitsValue(SubSeq(cell, 9, 10))
         IN  IF y >= 1 /\ m >= 1 /\ m <= 12 /\ d >= 1 /\ d <= DaysInMonth(y, m)
             THEN <<y, m, d>> ELSE NaT
    ELSE NaT

W_Monday == <<77, 111, 110, 100, 97, 121>>                  \* "Monday"
W_Tuesday == <<84, 117, 101, 115, 100, 97, 121>>            \* "Tuesday"
W_Wednesday == <<87, 101, 100, 110, 101, 115, 100, 97, 121>> \* "Wednesday"
W_Thursday == <<84, 104, 117, 114, 115, 100, 97, 121>>      \* "Thursday"
W_Friday == <<70, 114, 105, 100, 97, 121>>                  \* "Friday"
W_Saturday == <<83, 97, 116, 117, 114, 100, 97, 121>>       \* "Saturday"
W_Sunday == <<83, 117, 110, 100, 97, 121>>                  \* "Sunday"

(* The list the weekday counts are reindexed to.                           *)
Weekdays == <<W_Monday, W_Tuesday, W_Wednesday, W_Thursday, W_Friday,
              W_Saturday, W_Sunday>>

RECURSIVE DaysBeforeMonth(_, _)
DaysBeforeMonth(y, m) ==
    IF m = 1 THEN 0 ELSE DaysBeforeMonth(y, m - 1) + DaysInMonth(y, m - 1)

(* Days since 0001-01-01, which was a Monday, counted from 1.              *)
Ordinal(date) ==
    LET y == date[1] - 1
    IN  365 * y + (y \div 4) - (y \div 100) + (y \div 400)
        + DaysBeforeMonth(date[1], date[2]) + date[3]

(* Series.dt.day_name() on one cell: NaT gives NaN.                        *)
day_name(date) ==
    IF isna(date) THEN NaN ELSE Weekdays[((Ordinal(date) + 6) % 7) + 1]

(* DataFrame.dropna(subset=...): the rows with no missing cell in subset,  *)
(* in their order.                                                         *)
dropna(frame, subset) ==
    SelectSeq(frame, LAMBDA r : \A c \in subset : ~isna(r[c]))

(* The texts of S in sorted order.                                         *)
RECURSIVE Sorted(_)
Sorted(S) ==
    IF S = {} THEN <<>>
    ELSE LET lo == CHOOSE x \in S : \A y \in S : ~StrLess(y, x)
         IN  <<lo>> \o Sorted(S \ {lo})

(* The group keys of groupby(by): sort=True, and the rows whose key is     *)
(* missing belong to no group (dropna=True).                               *)
group_keys(frame, by) ==
    Sorted({frame[i][by] : i \in 1..Len(frame)} \ {NaN})

Group(frame, by, k) == SelectSeq(frame, LAMBDA r : r[by] = k)

ColumnSum(frame, col) == SumSeq([i \in 1..Len(frame) |-> frame[i][col][1]])

(* groupby(by)[col].sum(): <<key, sum>> in key order.                      *)
groupby_sum(frame, by, col) ==
    LET keys == group_keys(frame, by)
    IN  [i \in 1..Len(keys) |-> <<keys[i], ColumnSum(Group(frame, by, keys[i]), col)>>]

(* groupby(by)[col].mean(): <<key, <<sum, count>>>> in key order.          *)
groupby_mean(frame, by, col) ==
    LET keys == group_keys(frame, by)
    IN  [i \in 1..Len(keys) |->
            <<keys[i], <<ColumnSum(Group(frame, by, keys[i]), col),
                         Len(Group(frame, by, keys[i]))>> >>]

(* Variant of idxmax: the label of the last occurrence of the maximum.     *)
idxmax_last(series) ==
    LET i == CHOOSE i \in 1..Len(series) :
                /\ \A j \in 1..Len(series) : series[j][2] <= series[i][2]
                /\ \A j \in (i + 1)..Len(series) : series[j][2] < series[i][2]
    IN  series[i][1]

(* Series.idxmax(): the label of the first occurrence of the maximum.      *)
idxmax(series) ==
    LET i == CHOOSE i \in 1..Len(series) :
                /\ \A j \in 1..Len(series) : series[j][2] <= series[i][2]
                /\ \A j \in 1..(i - 1) : series[j][2] < series[i][2]
    IN  series[i][1]

(* Series.value_counts(): dropna=True, a count for each value present. The *)
(* order of the result is not modelled: nothing the script does reads it.  *)
value_counts(values) ==
    [v \in {values[i] : i \in 1..Len(values)} \ {NaN} |->
        Cardinality({i \in 1..Len(values) : values[i] = v})]

(* Variant of reindex: only the labels that have a count, nothing filled.  *)
reindex_present(counts, labels, fill) ==
    LET present == SelectSeq(labels, LAMBDA l : l \in DOMAIN counts)
    IN  [i \in 1..Len(present) |-> <<present[i], counts[present[i]]>>]

(* Series.reindex(labels, fill_value=fill): <<label, value>> for exactly   *)
(* the labels given, in their order.                                       *)
reindex(counts, labels, fill) ==
    [i \in 1..Len(labels) |->
        <<labels[i], IF labels[i] \in DOMAIN counts THEN counts[labels[i]] ELSE fill>>]

----------------------------------------------------------------------------
(* The uploads explored: header lists, and for each header the cell texts  *)
(* a column under it may hold. No list here resolves Sales and Category to *)
(* one and the same header, and no cell makes pandas raise: the except     *)
(* branch of line 149 is outside the model.                                *)
HeaderLists ==
    { <<H_Sales, H_Category>>,
      <<H_SALES, H_Category, H_Payment>>,
      <<H_Category, H_Date, H_TotalSales>>,
      <<H_sale, H_categories, H_payments, H_dates>>,
      <<H_Amt, H_Product, H_Date, H_PayMode>>,
      <<H_Category>>,
      <<H_Sales, H_Region>> }

Cells(h) ==
    CASE h = H_Sales      -> {NaN, V_12, V_7_5, V_abc}
      [] h = H_SALES      -> {V_12, V_abc}
      [] h = H_TotalSales -> {NaN, V_7_5}
      [] h = H_sale       -> {V_100_50, V_abc}
      [] h = H_Amt        -> {V_100_50}
      [] h = H_Category   -> {NaN, V_A, V_B}
      [] h = H_categories -> {NaN, V_Widgets}
      [] h = H_Product    -> {V_Widgets}
      [] h = H_Region     -> {V_A}
      [] h = H_Payment    -> {NaN, V_Cash, V_Card}
      [] h = H_payments   -> {NaN, V_Cash}
      [] h = H_PayMode    -> {V_Cash}
      [] h = H_Date       -> {NaN, V_Mon, V_soon}
      [] h = H_dates      -> {V_Sun, V_BadDay}
      [] OTHER            -> {NaN}

RECURSIVE RowsOf(_)
RowsOf(hl) ==
    IF hl = <<>> THEN {<<>>}
    ELSE {<<c>> \o r : c \in Cells(hl[1]), r \in RowsOf(Tail(hl))}

(* The header lists handed to the matcher on its own.                      *)
HeaderPool ==
    { H_Sales, H_SALES, H_SalesPadded, H_sale, H_Sales1, H_Sales2, H_Salon,
      H_TotalSales, H_Amount, H_Amt, H_Category, H_categories,
      H_Date, H_dates, H_Payment, H_PayMode }

RECURSIVE DistinctSeqs(_, _)
DistinctSeqs(S, n) ==
    IF n = 0 THEN {<<>>}
    ELSE {<<x>> \o s : x \in S, s \in DistinctSeqs(S, n - 1)}

MatchHeaderLists ==
    {s \in UNION {DistinctSeqs(HeaderPool, n) : n \in 1..MaxHeaders} :
        \A i, j \in 1..Len(s) : i # j => s[i] # s[j]}

(* The words the script looks up.                                          *)
Targets == {T_sales, T_category, T_payment, T_date}

----------------------------------------------------------------------------
(* State.                                                                  *)
EmptyMap == [x \in {} |-> 0]

Unset ==
    /\ sales_col = None /\ category_col = None
    /\ payment_col = None /\ date_col = None

Init ==
    /\ pc = "idle"
    /\ columns = <<>> /\ df = <<>>
    /\ Unset
    /\ original_count = 0 /\ df_clean = <<>> /\ clean_columns = <<>>
    /\ cleaned_count = 0 /\ dropped = 0
    /\ total_sales = 0 /\ avg_sales_per_category = <<>> /\ top_category = None
    /\ fig1 = <<>>
    /\ payment_counts = EmptyMap /\ weekday_counts = <<>>
    /\ pdf = <<>>
    /\ st_out = <<>>
    /\ target = None /\ match = None

(* Position of a header in df.columns (read_csv keeps headers distinct).   *)
Pos(col) == CHOOSE i \in 1..Len(columns) : columns[i] = col

(* Lines 26-34: the file is read and its preview shown.                    *)
Upload ==
    /\ pc = "idle"
    /\ \E hl \in HeaderLists : \E n \in 0..MaxRows : \E rows \in [1..n -> RowsOf(hl)] :
          /\ columns' = hl
          /\ df' = rows
    /\ st_out' = Append(st_out, "subheader: Raw Data Preview")
    /\ pc' = "loaded"
    /\ UNCHANGED <<sales_col, category_col, payment_col, date_col,
                   original_count, df_clean, clean_columns, cleaned_count, dropped,
                   total_sales, avg_sales_per_category, top_category, fig1,
                   payment_counts, weekday_counts, pdf, target, match>>

(* Variant of RequiredMissing: only the Sales column is required.          *)
RequiredMissing_sales_only(s, c) == s = None

(* Line 42: the test that stops the run.                                   *)
RequiredMissing(s, c) == s = None \/ c = None

(* Lines 36-44: the four columns are guessed; without a Sales or a         *)
(* Category column the run stops.                                          *)
Resolve ==
    /\ pc = "loaded"
    /\ sales_col' = guess_column_name(columns, T_sales)
    /\ category_col' = guess_column_name(columns, T_category)
    /\ payment_col' = guess_column_name(columns, T_payment)
    /\ date_col' = guess_column_name(columns, T_date)
    /\ IF RequiredMissing(sales_col', category_col')
       THEN /\ st_out' = Append(st_out, "error: Could not detect 'Sales' or 'Category' columns")
            /\ pc' = "stopped"
       ELSE /\ st_out' = st_out
            /\ pc' = "clean"
    /\ UNCHANGED <<columns, df,
                   original_count, df_clean, clean_columns, cleaned_count, dropped,
                   total_sales, avg_sales_per_category, top_category, fig1,
                   payment_counts, weekday_counts, pdf, target, match>>

Has(seq, x) == \E i \in 1..Len(seq) : seq[i] = x

(* Variants of RequiredColumns: dropna() over every column of df_clean,    *)
(* and dropna(subset=[sales_col]).                                         *)
every_column(present) == present

sales_column_only(present) == {"Sales"}

(* Line 55: the columns whose missing cells drop a row.                    *)
RequiredColumns(present) == {"Sales", "Category"}

(* Variant of dropped_rows: the difference taken the other way round.      *)
dropped_rows_swapped(original, cleaned) == cleaned - original

(* Line 61.                                                                *)
dropped_rows(original, cleaned) == original - cleaned

(* Variant of empty: the test never fires.                                 *)
empty_never(frame) == FALSE

(* DataFrame.empty, line 65.                                               *)
empty(frame) == Len(frame) = 0

(* Lines 48-53: the two required columns are copied, then Payment as it    *)
(* is and Date parsed, when they were guessed. Each row keeps its index.   *)
project(rows) ==
    [i \in 1..Len(rows) |->
        [idx |-> i,
         Sales |-> rows[i][Pos(sales_col)],
         Category |-> rows[i][Pos(category_col)],
         Payment |-> IF payment_col # None THEN rows[i][Pos(payment_col)] ELSE NaN,
         Date |-> IF date_col # None THEN to_datetime(rows[i][Pos(date_col)]) ELSE NaT]]

(* Line 58: the names of df_clean's columns.                               *)
renamed_columns ==
    <<"Sales", "Category">>
    \o (IF payment_col # None THEN <<"Payment">> ELSE <<>>)
    \o (IF date_col # None THEN <<"Date">> ELSE <<>>)

(* Lines 55-57: rows with a missing Sales or Category cell go, Sales is    *)
(* made numeric, rows whose Sales did not parse go.                        *)
clean(rows) ==
    LET present == {renamed_columns[i] : i \in 1..Len(renamed_columns)}
        kept == dropna(project(rows), RequiredColumns(present))
        numeric == [i \in 1..Len(kept) |->
                       [kept[i] EXCEPT !.Sales = to_numeric(kept[i].Sales)]]
    IN  dropna(numeric, {"Sales"})

(* Lines 46-67: the table is cleaned and counted; an empty result stops    *)
(* the run.                                                                *)
Clean ==
    /\ pc = "clean"
    /\ original_count' = Len(df)
    /\ df_clean' = clean(df)
    /\ clean_columns' = renamed_columns
    /\ cleaned_count' = Len(df_clean')
    /\ dropped' = dropped_rows(original_count', cleaned_count')
    /\ LET warned == IF dropped' > 0
                     THEN Append(st_out, "warning: Removed rows with missing or invalid data")
                     ELSE st_out
       IN  IF empty(df_clean')
           THEN /\ st_out' = Append(warned, "error: No valid data left after cleaning")
                /\ pc' = "stopped"
           ELSE /\ st_out' = warned
                /\ pc' = "insights"
    /\ UNCHANGED <<columns, df, sales_col, category_col, payment_col, date_col,
                   total_sales, avg_sales_per_category, top_category, fig1,
                   payment_counts, weekday_counts, pdf, target, match>>

(* Lines 69-81: the total, the mean per category and the top category.     *)
Insights ==
    /\ pc = "insights"
    /\ total_sales' = ColumnSum(df_clean, "Sales")
    /\ avg_sales_per_category' = groupby_mean(df_clean, "Category", "Sales")
    /\ IF avg_sales_per_category' # <<>>
       THEN /\ top_category' = idxmax(groupby_sum(df_clean, "Category", "Sales"))
            /\ st_out' = st_out \o <<"subheader: Insights", "write: Total Sales",
                                     "write: Top Category", "dataframe: Average Sales per Category">>
       ELSE /\ top_category' = top_category
            /\ st_out' = st_out \o <<"subheader: Insights", "write: Total Sales",
                                     "warning: No categories found after cleaning">>
    /\ pc' = "charts"
    /\ UNCHANGED <<columns, df, sales_col, category_col, payment_col, date_col,
                   original_count, df_clean, clean_columns, cleaned_count, dropped,
                   fig1, payment_counts, weekday_counts, pdf, target, match>>

(* Lines 83-97: the two bar charts; fig1 plots the sum per category.       *)
CategoryCharts ==
    /\ pc = "charts"
    /\ fig1' = groupby_sum(df_clean, "Category", "Sales")
    /\ st_out' = st_out \o <<"subheader: Total Sales by Category",
                             "subheader: Average Sales per Category">>
    /\ pc' = "payment"
    /\ UNCHANGED <<columns, df, sales_col, category_col, payment_col, date_col,
                   original_count, df_clean, clean_columns, cleaned_count, dropped,
                   total_sales, avg_sales_per_category, top_category,
                   payment_counts, weekday_counts, pdf, target, match>>

Column(frame, col) == [i \in 1..Len(frame) |-> frame[i][col]]

(* Variant of payment_value_counts: value_counts(dropna=False), missing    *)
(* values counted under NaN.                                               *)
payment_value_counts_keepna(frame) ==
    LET values == Column(frame, "Payment")
    IN  [v \in {values[i] : i \in 1..Len(values)} |->
            Cardinality({i \in 1..Len(values) : values[i] = v})]

(* Line 102.                                                               *)
payment_value_counts(frame) == value_counts(Column(frame, "Payment"))

(* Lines 99-106: the pie chart of the payment methods, when there is a     *)
(* Payment column.                                                         *)
PaymentChart ==
    /\ pc = "payment"
    /\ IF Has(clean_columns, "Payment")
       THEN /\ payment_counts' = payment_value_counts(df_clean)
            /\ st_out' = Append(st_out, "subheader: Payment Method Distribution")
       ELSE UNCHANGED <<payment_counts, st_out>>
    /\ pc' = "weekday"
    /\ UNCHANGED <<columns, df, sales_col, category_col, payment_col, date_col,
                   original_count, df_clean, clean_columns, cleaned_count, dropped,
                   total_sales, avg_sales_per_category, top_category, fig1,
                   weekday_counts, pdf, target, match>>

(* Lines 111-114.                                                          *)
weekday_value_counts(frame) ==
    LET Weekday == [i \in 1..Len(frame) |-> day_name(frame[i].Date)]
    IN  reindex(value_counts(Weekday), Weekdays, 0)

(* Lines 108-119: the bar chart of transactions per weekday, when there is *)
(* a Date column.                                                          *)
WeekdayChart ==
    /\ pc = "weekday"
    /\ IF Has(clean_columns, "Date")
       THEN /\ weekday_counts' = weekday_value_counts(df_clean)
            /\ st_out' = Append(st_out, "subheader: Most Active Days")
       ELSE UNCHANGED <<weekday_counts, st_out>>
    /\ pc' = "pdf"
    /\ UNCHANGED <<columns, df, sales_col, category_col, payment_col, date_col,
                   original_count, df_clean, clean_columns, cleaned_count, dropped,
                   total_sales, avg_sales_per_category, top_category, fig1,
                   payment_counts, pdf, target, match>>

(* Lines 121-147: the PDF report and its download button.                  *)
generate_pdf ==
    /\ pc = "pdf"
    /\ pdf' = [total_sales |-> total_sales,
               top_category |-> IF avg_sales_per_category # <<>> THEN top_category ELSE None,
               rows_cleaned |-> dropped,
               chart |-> fig1]
    /\ st_out' = Append(st_out, "download_button: Download PDF Report")
    /\ pc' = "done"
    /\ UNCHANGED <<columns, df, sales_col, category_col, payment_col, date_col,
                   original_count, df_clean, clean_columns, cleaned_count, dropped,
                   total_sales, avg_sales_per_category, top_category, fig1,
                   payment_counts, weekday_counts, target, match>>

Next ==
    \/ Upload
    \/ Resolve
    \/ Clean
    \/ Insights
    \/ CategoryCharts
    \/ PaymentChart
    \/ WeekdayChart
    \/ generate_pdf

Spec == Init /\ [][Next]_vars

----------------------------------------------------------------------------
(* The matcher on its own: a header list, then one lookup.                 *)
InitMatch ==
    /\ pc = "match"
    /\ columns \in MatchHeaderLists
    /\ df = <<>>
    /\ Unset
    /\ original_count = 0 /\ df_clean = <<>> /\ clean_columns = <<>>
    /\ cleaned_count = 0 /\ dropped = 0
    /\ total_sales = 0 /\ avg_sales_per_category = <<>> /\ top_category = None
    /\ fig1 = <<>>
    /\ payment_counts = EmptyMap /\ weekday_counts = <<>>
    /\ pdf = <<>>
    /\ st_out = <<>>
    /\ target = None /\ match = None

Guess ==
    /\ pc = "match"
    /\ \E t \in Targets :
          /\ target' = t
          /\ match' = guess_column_name(columns, t)
    /\ pc' = "matched"
    /\ UNCHANGED <<columns, df, sales_col, category_col, payment_col, date_col,
                   original_count, df_clean, clean_columns, cleaned_count, dropped,
                   total_sales, avg_sales_per_category, top_category, fig1,
                   payment_counts, weekday_counts, pdf, st_out>>

NextMatch == Guess

SpecMatch == InitMatch /\ [][NextMatch]_vars

----------------------------------------------------------------------------
(* Properties.                                                             *)

AfterResolve == pc \notin {"idle", "loaded", "match", "matched"}

BothResolved == sales_col # None /\ category_col # None

CleanRan ==
    \/ pc \in {"insights", "charts", "payment", "weekday", "pdf", "done"}
    \/ pc = "stopped" /\ BothResolved

InsightsRan == pc \in {"charts", "payment", "weekday", "pdf", "done"}

ChartsRan == pc \in {"payment", "weekday", "pdf", "done"}

PaymentRan == pc \in {"weekday", "pdf", "done"} /\ payment_col # None

WeekdayRan == pc \in {"pdf", "done"} /\ date_col # None

NothingCleaned ==
    /\ original_count = 0 /\ df_clean = <<>> /\ clean_columns = <<>>
    /\ cleaned_count = 0 /\ dropped = 0

NothingAggregated ==
    /\ total_sales = 0 /\ avg_sales_per_category = <<>> /\ top_category = None
    /\ fig1 = <<>> /\ payment_counts = EmptyMap /\ weekday_counts = <<>>
    /\ pdf = <<>>
    /\ ~Has(st_out, "subheader: Insights")
    /\ ~Has(st_out, "download_button: Download PDF Report")

RECURSIVE MapSum(_)
MapSum(f) ==
    IF DOMAIN f = {} THEN 0
    ELSE LET k == CHOOSE k \in DOMAIN f : TRUE
         IN  f[k] + MapSum([x \in DOMAIN f \ {k} |-> f[x]])

(* The uploaded cell a cleaned record came from.                           *)
RawCell(r, col) == df[r.idx][Pos(col)]

(* C1: once the table is cleaned, the number of cleaned records plus the   *)
(* reported dropped count is the number of rows uploaded, so the dropped   *)
(* count lies between 0 and that number.                                   *)
C1_CountsAddUp ==
    CleanRan =>
        /\ cleaned_count = Len(df_clean)
        /\ original_count = Len(df)
        /\ Len(df_clean) + dropped = Len(df)
        /\ dropped >= 0 /\ dropped <= Len(df)

C1_Witness == CleanRan /\ dropped > 0 /\ Len(df_clean) > 0

(* C2: when Sales or Category is not found the run stops with the          *)
(* could-not-detect error right after the preview, and nothing is cleaned, *)
(* aggregated or reported; when both are found, whatever became of Payment *)
(* and Date, that error is not shown and the run goes on to cleaning.      *)
C2_RequiredFieldsGate ==
    AfterResolve =>
        IF sales_col = None \/ category_col = None
        THEN /\ pc = "stopped"
             /\ st_out = <<"subheader: Raw Data Preview",
                           "error: Could not detect 'Sales' or 'Category' columns">>
             /\ NothingCleaned
             /\ NothingAggregated
        ELSE /\ ~Has(st_out, "error: Could not detect 'Sales' or 'Category' columns")
             /\ (pc = "clean" \/ CleanRan)

C2_Witness == pc = "stopped" /\ sales_col # None /\ category_col = None

(* C3: when no row survives cleaning the run stops with the no-valid-data  *)
(* error and no aggregate, chart or PDF is computed; when a row survives,  *)
(* that error is not shown. So the aggregates are never computed from an   *)
(* empty table.                                                            *)
C3_EmptyResultGate ==
    CleanRan =>
        IF Len(df_clean) = 0
        THEN /\ pc = "stopped"
             /\ st_out[Len(st_out)] = "error: No valid data left after cleaning"
             /\ NothingAggregated
        ELSE /\ pc # "stopped"
             /\ ~Has(st_out, "error: No valid data left after cleaning")

C3_Witness == pc = "stopped" /\ BothResolved /\ Len(df) > 0 /\ Len(df_clean) = 0

(* C4: the cleaned records are exactly the uploaded rows whose Category    *)
(* cell is present and whose Sales cell parses as a number, in their       *)
(* original order and with those values; what the Date and the Payment     *)
(* cells hold decides nothing.                                             *)
C4_RowInclusion ==
    CleanRan =>
        LET Keep == {i \in 1..Len(df) :
                        /\ ~isna(df[i][Pos(category_col)])
                        /\ ~isna(to_numeric(df[i][Pos(sales_col)]))}
        IN  /\ {df_clean[k].idx : k \in 1..Len(df_clean)} = Keep
            /\ \A k \in 1..(Len(df_clean) - 1) : df_clean[k].idx < df_clean[k + 1].idx
            /\ \A k \in 1..Len(df_clean) :
                  /\ df_clean[k].Category = RawCell(df_clean[k], category_col)
                  /\ df_clean[k].Sales = to_numeric(RawCell(df_clean[k], sales_col))

C4_Witness ==
    /\ CleanRan /\ date_col # None
    /\ \E k \in 1..Len(df_clean) :
          /\ ~isna(RawCell(df_clean[k], date_col))
          /\ df_clean[k].Date = NaT
    /\ Len(df_clean) < Len(df)

Categories == {df_clean[k].Category : k \in 1..Len(df_clean)}

CategoryTotal(c) ==
    SumSeq([k \in 1..Len(df_clean) |->
               IF df_clean[k].Category = c THEN df_clean[k].Sales[1] ELSE 0])

TopTotals == {c \in Categories : \A d \in Categories : CategoryTotal(d) <= CategoryTotal(c)}

FirstSeen(c) ==
    CHOOSE k \in 1..Len(df_clean) :
        /\ df_clean[k].Category = c
        /\ \A j \in 1..(k - 1) : df_clean[j].Category # c

(* C5, as claimed: the top category has the greatest sum, and of the       *)
(* categories tied for it, it is the one whose first record comes first.   *)
C5_TopIsFirstEncountered ==
    InsightsRan =>
        /\ top_category \in TopTotals
        /\ \A c \in TopTotals : FirstSeen(top_category) <= FirstSeen(c)

(* C5, amended: the top category has the greatest sum, and of the          *)
(* categories tied for it, it is the first in the sorted order of the      *)
(* category labels.                                                        *)
C5_TopIsSmallestLabel ==
    InsightsRan =>
        /\ top_category \in TopTotals
        /\ \A c \in TopTotals \ {top_category} : StrLess(top_category, c)

C5_Witness ==
    /\ InsightsRan
    /\ Cardinality(TopTotals) >= 2
    /\ FirstSeen(top_category) > 1

(* C6: with a Date column, the weekday counts have exactly the seven keys  *)
(* Monday to Sunday, each the number of cleaned records whose date falls   *)
(* on it, and they sum to the number of cleaned records whose date parsed. *)
C6_WeekdayCounts ==
    WeekdayRan =>
        LET Parsed == {k \in 1..Len(df_clean) :
                          ~isna(to_datetime(RawCell(df_clean[k], date_col)))}
        IN  /\ Len(weekday_counts) = 7
            /\ \A i \in 1..Len(weekday_counts) : weekday_counts[i][1] = Weekdays[i]
            /\ \A i \in 1..Len(weekday_counts) : weekday_counts[i][2] >= 0
            /\ SumSeq([i \in 1..Len(weekday_counts) |-> weekday_counts[i][2]])
                  = Cardinality(Parsed)

C6_Witness ==
    /\ WeekdayRan
    /\ \E k \in 1..Len(df_clean) : isna(df_clean[k].Date)
    /\ \E k \in 1..Len(df_clean) : ~isna(df_clean[k].Date)

(* C7: the sums per category plotted in the first chart add up to the      *)
(* total sales, which is the sum of the Sales of all cleaned records; each *)
(* category is there once.                                                 *)
C7_CategorySumsAddUp ==
    ChartsRan =>
        /\ SumSeq([i \in 1..Len(fig1) |-> fig1[i][2]]) = total_sales
        /\ total_sales = SumSeq([k \in 1..Len(df_clean) |-> df_clean[k].Sales[1]])
        /\ \A i, j \in 1..Len(fig1) : i # j => fig1[i][1] # fig1[j][1]
        /\ {fig1[i][1] : i \in 1..Len(fig1)} = Categories

C7_Witness == ChartsRan /\ Len(fig1) >= 2

(* C8, as claimed: with a Payment column, the payment counts have a bucket *)
(* for the records without a payment value when there are any, and sum to  *)
(* the number of cleaned records.                                          *)
C8_PaymentCountsCoverAll ==
    PaymentRan =>
        /\ (\E k \in 1..Len(df_clean) : isna(RawCell(df_clean[k], payment_col)))
              => NaN \in DOMAIN payment_counts
        /\ MapSum(payment_counts) = Len(df_clean)

(* C8, amended: with a Payment column, the payment counts have one bucket  *)
(* for each distinct payment value present, counting the cleaned records   *)
(* with that value; records without a payment value are in no bucket, so   *)
(* the counts sum to the number of cleaned records that have one.          *)
C8_PaymentCountsSkipMissing ==
    PaymentRan =>
        LET Paid == {k \in 1..Len(df_clean) : ~isna(RawCell(df_clean[k], payment_col))}
        IN  /\ DOMAIN payment_counts = {RawCell(df_clean[k], payment_col) : k \in Paid}
            /\ \A v \in DOMAIN payment_counts :
                  payment_counts[v] =
                      Cardinality({k \in Paid : RawCell(df_clean[k], payment_col) = v})
            /\ MapSum(payment_counts) = Cardinality(Paid)

C8_Witness ==
    /\ PaymentRan
    /\ \E k \in 1..Len(df_clean) : isna(RawCell(df_clean[k], payment_col))
    /\ \E k \in 1..Len(df_clean) : ~isna(RawCell(df_clean[k], payment_col))

(* The second alias the specification gives the Sales field.              *)
T_amount == <<97, 109, 111, 117, 110, 116>>   \* "amount"

(* A header that is a variant of "sales" or of "amount": its lower-cased   *)
(* text is at least 0.6 similar to that alias.                             *)
SalesVariant(h) ==
    \/ MeetsCutoff(ratio(lower(h), T_sales))
    \/ MeetsCutoff(ratio(lower(h), T_amount))

(* C9: when a header is a variant of "sales" or of "amount", the Sales     *)
(* field resolves to such a header; and the headers Amt, Product, Date,    *)
(* Pay Mode resolve to Sales, Category, Date and Payment in that order.    *)
C9_SalesResolvesToVariant ==
    AfterResolve =>
        /\ (\E i \in 1..Len(columns) : SalesVariant(columns[i]))
              => \E i \in 1..Len(columns) :
                    SalesVariant(columns[i]) /\ sales_col = columns[i]
        /\ columns = <<H_Amt, H_Product, H_Date, H_PayMode>>
              => /\ sales_col = H_Amt /\ category_col = H_Product
                 /\ date_col = H_Date /\ payment_col = H_PayMode

Score(h) == ratio(lower(h), lower(target))

Qualifying == {i \in 1..Len(columns) : MeetsCutoff(Score(columns[i]))}

TopTied ==
    {i \in Qualifying :
        \A j \in Qualifying : ~RatioLess(Score(columns[i]), Score(columns[j]))}

First(S) == CHOOSE i \in S : \A j \in S : i <= j

(* C10, as claimed: of the headers tied at the highest qualifying score    *)
(* the first in header order is returned, and None only when no header     *)
(* meets the threshold.                                                    *)
C10_FirstTiedHeaderWins ==
    pc = "matched" =>
        IF Qualifying = {} THEN match = None
        ELSE match = columns[First(TopTied)]

(* C10, amended: of the headers tied at the highest qualifying score the   *)
(* one whose lower-cased text is greatest in code-point order is returned, *)
(* and of the headers with that lower-cased text the first in header       *)
(* order; None is returned only when no header meets the threshold.        *)
C10_GreatestLoweredTiedHeaderWins ==
    pc = "matched" =>
        IF Qualifying = {} THEN match = None
        ELSE LET Winners == {i \in TopTied :
                                \A j \in TopTied :
                                    ~StrLess(lower(columns[i]), lower(columns[j]))}
             IN  match # None /\ match = columns[First(Winners)]

C10_Witness ==
    /\ pc = "matched"
    /\ Cardinality(TopTied) >= 2
    /\ match # columns[First(TopTied)]

============================================================================
